---- MODULE Spec2Model ----
(***************************************************************************)
(* Model of the MME log parser of opensurfcontrol (mme_client.py): the     *)
(* trailing-window reader, the per-line rule set, the connection fold and  *)
(* the session fold, the parser's cache fields and its query operations.   *)
(*                                                                         *)
(* A log line is a sequence of tokens.  Every regular expression of the    *)
(* module is applied with re.search, which yields the FIRST match of its   *)
(* pattern in the line: Search(line, kind) is the first token of a kind.   *)
(***************************************************************************)
EXTENDS Integers, Sequences, FiniteSets, TLC

\* ------------------------------------------------------------------ bounds
MaxWindow == 3
MaxFile == 2

\* Largest number of grant snapshots stored for one eNodeB.
MaxSnapshots == 3

\* ------------------------------------------------------------ basic values
\* Python None in an Optional[int] field (ids, counts and times are >= 0).
NoneInt == -1
\* Python None where a string (an address, an identifier) is expected.
NoneStr == "None"

EmptyMap == [x \in {} |-> 0]

Put(f, k, v) == [x \in (DOMAIN f) \cup {k} |-> IF x = k THEN v ELSE f[x]]

\* ------------------------------------------------------------------ tokens
\* One token is one place of a line where a pattern of the module matches
\* (or, kind "text", where none does).
Tok(kind, id, txt, n, m) == [kind |-> kind, id |-> id, txt |-> txt, n |-> n, m |-> m]

Accepted(ip, port) == Tok("accepted", ip, "", port, 0)
Refused(ip) == Tok("refused", ip, "", 0, 0)
Streams(ip, count) == Tok("streams", ip, "", count, 0)
\* n >= 1: a calendar time MM/DD HH:MM:SS.mmm; n = 0: digits of that shape that
\* are no date (strptime raises ValueError).
Timestamp(n) == Tok("timestamp", "", "", n, 0)
Context(enb, mme) == Tok("context", "", "", enb, mme)
ImsiTok(imsi) == Tok("imsi", imsi, "", 0, 0)
Attach(imsi, event) == Tok("attach", imsi, event, 0, 0)
Detach(imsi) == Tok("detach", imsi, "", 0, 0)
Removed(imsi, apn) == Tok("removed", imsi, apn, 0, 0)
EnbUeCount(n) == Tok("enb_ue", "", "", n, 0)
SessionCount(n) == Tok("mme_sess", "", "", n, 0)
Text == Tok("text", "", "", 0, 0)

\* re.search: the index of the first token of the kind in the line, 0 if none.
Search(line, kind) ==
    LET hits == {i \in 1..Len(line) : line[i].kind = kind}
    IN IF hits = {} THEN 0 ELSE CHOOSE i \in hits : \A j \in hits : i <= j

Matches(line, kind) == Search(line, kind) # 0

Match(line, kind) == line[Search(line, kind)]

\* _extract_timestamp: the first timestamp token, None when it is no date.
ExtractTimestamp(line) ==
    IF Matches(line, "timestamp") /\ Match(line, "timestamp").n >= 1
    THEN Match(line, "timestamp").n
    ELSE NoneInt

\* enb_id = f"eNB-{ip.replace('.', '-')}"
EnbId(ip) ==
    CASE ip = "10.0.1.5" -> "eNB-10-0-1-5"
      [] ip = "10.0.1.14" -> "eNB-10-0-1-14"
      [] OTHER -> "eNB-"

\* --------------------------------------------------------- data model
S1APConnection(ip, port, ts) ==
    [enb_id |-> EnbId(ip), ip_address |-> ip, port |-> port, connected_at |-> ts,
     is_connected |-> TRUE, sctp_streams |-> NoneInt]

UESession(imsi) ==
    [imsi |-> imsi, apn |-> "internet", enb_ue_s1ap_id |-> NoneInt,
     mme_ue_s1ap_id |-> NoneInt, attached_at |-> NoneInt, state |-> "attaching"]

\* ------------------------------------------------ connection fold (parse_logs)
\* The locals of one pass: [connections, refused_ips].
LogsStart == [connections |-> EmptyMap, refused_ips |-> {}]

AcceptedRuleNoDiscard(st, line) ==
    IF Matches(line, "accepted")
    THEN LET t == Match(line, "accepted")
         IN [st EXCEPT !.connections =
                 Put(@, t.id, S1APConnection(t.id, t.n, ExtractTimestamp(line)))]
    ELSE st

AcceptedRuleKeyedByPort(st, line) ==
    IF Matches(line, "accepted")
    THEN LET t == Match(line, "accepted")
             key == IF t.n = 3223 THEN t.id ELSE "10.0.1.5:3224"
         IN [connections |->
                 Put(st.connections, key, S1APConnection(t.id, t.n, ExtractTimestamp(line))),
             refused_ips |-> st.refused_ips \ {t.id}]
    ELSE st

AcceptedRuleKeepsStreams(st, line) ==
    IF Matches(line, "accepted")
    THEN LET t == Match(line, "accepted")
             old == IF t.id \in DOMAIN st.connections
                    THEN st.connections[t.id].sctp_streams ELSE NoneInt
         IN [connections |->
                 Put(st.connections, t.id,
                     [S1APConnection(t.id, t.n, ExtractTimestamp(line))
                         EXCEPT !.sctp_streams = old]),
             refused_ips |-> st.refused_ips \ {t.id}]
    ELSE st

AcceptedRule(st, line) ==
    IF Matches(line, "accepted")
    THEN LET t == Match(line, "accepted")
         IN [connections |->
                 Put(st.connections, t.id, S1APConnection(t.id, t.n, ExtractTimestamp(line))),
             refused_ips |-> st.refused_ips \ {t.id}]
    ELSE st

StreamsRuleFabricates(st, line) ==
    IF Matches(line, "streams")
    THEN LET t == Match(line, "streams")
             c == IF t.id \in DOMAIN st.connections THEN st.connections[t.id]
                  ELSE S1APConnection(t.id, 0, NoneInt)
         IN [st EXCEPT !.connections = Put(@, t.id, [c EXCEPT !.sctp_streams = t.n])]
    ELSE st

StreamsRule(st, line) ==
    IF Matches(line, "streams") /\ Match(line, "streams").id \in DOMAIN st.connections
    THEN LET t == Match(line, "streams")
         IN [st EXCEPT !.connections[t.id].sctp_streams = t.n]
    ELSE st

RefusedRuleMarksOnly(st, line) ==
    IF Matches(line, "refused")
    THEN [st EXCEPT !.refused_ips = @ \cup {Match(line, "refused").id}]
    ELSE st

RefusedRule(st, line) ==
    IF Matches(line, "refused")
    THEN LET t == Match(line, "refused")
         IN [connections |->
                 IF t.id \in DOMAIN st.connections
                 THEN [st.connections EXCEPT ![t.id].is_connected = FALSE]
                 ELSE st.connections,
             refused_ips |-> st.refused_ips \cup {t.id}]
    ELSE st

\* The body of the loop of parse_logs: the three rules, in this order.
FoldLogsLine(st, line) == RefusedRule(StreamsRule(AcceptedRule(st, line), line), line)

RECURSIVE FoldLogs(_, _)
FoldLogs(st, lines) ==
    IF lines = <<>> THEN st ELSE FoldLogs(FoldLogsLine(st, Head(lines)), Tail(lines))

\* The filter stored in self._connections.
ConnectedOf(st) ==
    LET keep == {ip \in DOMAIN st.connections :
                    st.connections[ip].is_connected /\ ip \notin st.refused_ips}
    IN [ip \in keep |-> st.connections[ip]]

\* ------------------------------------------- session fold (parse_ue_sessions)
\* The locals of one pass.
UeStart ==
    [sessions |-> EmptyMap, pending_context |-> EmptyMap,
     last_enb_ue_count |-> 0, last_session_count |-> 0]

ContextRuleKeepFirst(st, line) ==
    IF Matches(line, "context") /\ Matches(line, "imsi")
          /\ Match(line, "imsi").id \notin DOMAIN st.pending_context
    THEN [st EXCEPT !.pending_context =
             Put(@, Match(line, "imsi").id,
                 [enb |-> Match(line, "context").n, mme |-> Match(line, "context").m])]
    ELSE st

\* pending_context[imsi] = (enb_id, mme_id), when the line carries both tokens.
ContextRule(st, line) ==
    IF Matches(line, "context") /\ Matches(line, "imsi")
    THEN [st EXCEPT !.pending_context =
             Put(@, Match(line, "imsi").id,
                 [enb |-> Match(line, "context").n, mme |-> Match(line, "context").m])]
    ELSE st

\* The session after an attach event: created if absent, state set from the
\* event type, pending context (if any) copied onto it.
AttachedSession(st, imsi, event, ts) ==
    LET s0 == IF imsi \in DOMAIN st.sessions THEN st.sessions[imsi] ELSE UESession(imsi)
        s1 == IF event = "Attach request"
              THEN [s0 EXCEPT !.state = "attaching"]
              ELSE IF event = "Attach complete"
                   THEN [s0 EXCEPT !.state = "attached", !.attached_at = ts]
                   ELSE s0
    IN IF imsi \in DOMAIN st.pending_context
       THEN [s1 EXCEPT !.enb_ue_s1ap_id = st.pending_context[imsi].enb,
                       !.mme_ue_s1ap_id = st.pending_context[imsi].mme]
       ELSE s1

AttachRuleRequestAttaches(st, line) ==
    IF Matches(line, "attach")
    THEN LET t == Match(line, "attach")
         IN [st EXCEPT !.sessions =
                Put(@, t.id, [AttachedSession(st, t.id, t.txt, ExtractTimestamp(line))
                                 EXCEPT !.state = "attached"])]
    ELSE st

AttachRuleRecreates(st, line) ==
    IF Matches(line, "attach")
    THEN LET t == Match(line, "attach")
             fresh == [st EXCEPT !.sessions = [x \in DOMAIN @ \ {t.id} |-> @[x]]]
         IN [st EXCEPT !.sessions =
                Put(@, t.id, AttachedSession(fresh, t.id, t.txt, ExtractTimestamp(line)))]
    ELSE st

AttachRule(st, line) ==
    IF Matches(line, "attach")
    THEN LET t == Match(line, "attach")
         IN [st EXCEPT !.sessions =
                Put(@, t.id, AttachedSession(st, t.id, t.txt, ExtractTimestamp(line)))]
    ELSE st

DetachRuleCreates(st, line) ==
    IF Matches(line, "detach")
    THEN LET imsi == Match(line, "detach").id
         IN [st EXCEPT !.sessions =
                Put(@, imsi, [(IF imsi \in DOMAIN st.sessions THEN st.sessions[imsi]
                               ELSE UESession(imsi)) EXCEPT !.state = "detached"])]
    ELSE st

DetachRule(st, line) ==
    IF Matches(line, "detach") /\ Match(line, "detach").id \in DOMAIN st.sessions
    THEN [st EXCEPT !.sessions[Match(line, "detach").id].state = "detached"]
    ELSE st

RemovedRuleApnOnly(st, line) ==
    IF Matches(line, "removed") /\ Match(line, "removed").id \in DOMAIN st.sessions
    THEN [st EXCEPT !.sessions[Match(line, "removed").id].apn = Match(line, "removed").txt]
    ELSE st

RemovedRuleCreates(st, line) ==
    IF Matches(line, "removed")
    THEN LET t == Match(line, "removed")
             s0 == IF t.id \in DOMAIN st.sessions THEN st.sessions[t.id] ELSE UESession(t.id)
         IN [st EXCEPT !.sessions =
                Put(@, t.id, [s0 EXCEPT !.apn = t.txt, !.state = "detached"])]
    ELSE st

RemovedRule(st, line) ==
    IF Matches(line, "removed") /\ Match(line, "removed").id \in DOMAIN st.sessions
    THEN LET t == Match(line, "removed")
         IN [st EXCEPT !.sessions[t.id].apn = t.txt, !.sessions[t.id].state = "detached"]
    ELSE st

EnbUeCountRuleKeepMax(st, line) ==
    IF Matches(line, "enb_ue") /\ Match(line, "enb_ue").n > st.last_enb_ue_count
    THEN [st EXCEPT !.last_enb_ue_count = Match(line, "enb_ue").n]
    ELSE st

EnbUeCountRule(st, line) ==
    IF Matches(line, "enb_ue")
    THEN [st EXCEPT !.last_enb_ue_count = Match(line, "enb_ue").n]
    ELSE st

SessionCountRule(st, line) ==
    IF Matches(line, "mme_sess")
    THEN [st EXCEPT !.last_session_count = Match(line, "mme_sess").n]
    ELSE st

FoldUeLineFirstRuleOnly(st, line) ==
    IF Matches(line, "context") /\ Matches(line, "imsi") THEN ContextRule(st, line)
    ELSE IF Matches(line, "attach") THEN AttachRule(st, line)
    ELSE IF Matches(line, "detach") THEN DetachRule(st, line)
    ELSE IF Matches(line, "removed") THEN RemovedRule(st, line)
    ELSE IF Matches(line, "enb_ue") THEN EnbUeCountRule(st, line)
    ELSE SessionCountRule(st, line)

\* The body of the loop of parse_ue_sessions: the rules, in this order.
FoldUeLine(st, line) ==
    SessionCountRule(EnbUeCountRule(RemovedRule(DetachRule(
        AttachRule(ContextRule(st, line), line), line), line), line), line)

RECURSIVE FoldUe(_, _)
FoldUe(st, lines) ==
    IF lines = <<>> THEN st ELSE FoldUe(FoldUeLine(st, Head(lines)), Tail(lines))

\* The filter stored in self._ue_sessions.
AttachedOf(st) ==
    LET keep == {x \in DOMAIN st.sessions : st.sessions[x].state = "attached"}
    IN [x \in keep |-> st.sessions[x]]

\* ------------------------------------------------------------ the log lines
IPs == {"10.0.1.5", "10.0.1.14"}
IMSIs == {"315010000000001", "315010000000002"}
X1 == "315010000000001"
X2 == "315010000000002"

\* Lines a connection pass is run on.
ConnLines ==
    { <<Timestamp(1), Accepted("10.0.1.5", 3223)>>,
      <<Accepted("10.0.1.5", 3224)>>,
      <<Refused("10.0.1.5")>>,
      <<Streams("10.0.1.5", 8)>>,
      <<Timestamp(2), Accepted("10.0.1.14", 3223)>>,
      <<Refused("10.0.1.14")>>,
      <<Accepted("10.0.1.5", 3223), Refused("10.0.1.5")>>,
      <<Accepted("10.0.1.14", 3224), Streams("10.0.1.14", 4)>>,
      <<Timestamp(2), Text>> }

\* Lines a session pass is run on.
UeLines ==
    { <<Timestamp(1), Attach(X1, "Attach request")>>,
      <<Timestamp(2), Attach(X1, "Attach complete")>>,
      <<Attach(X2, "Attach complete")>>,
      <<Detach(X1)>>,
      <<Removed(X1, "ims")>>,
      <<Removed(X2, "internet")>>,
      <<Context(1, 1), ImsiTok(X1)>>,
      <<Context(2, 3), ImsiTok(X1)>>,
      <<Context(4, 4), ImsiTok(X1), Attach(X1, "Attach request")>>,
      <<Timestamp(0), Attach(X1, "Attach complete"), Detach(X1)>>,
      <<EnbUeCount(1)>>,
      <<SessionCount(2), Text>>,
      <<EnbUeCount(0), SessionCount(1)>>,
      <<Timestamp(2), Context(5, 6), ImsiTok(X2), Attach(X2, "Attach complete"),
        EnbUeCount(2)>>,
      <<Timestamp(1), Text>> }

Windows(menu) == UNION {[1..n -> menu] : n \in 0..MaxWindow}

\* ---------------------------------------------------------------- state
Parsers == {"p1", "p2"}
Threads == {"t1", "t2"}

VARIABLES
    \* the log file, owned by the external process: "ok", "missing", or
    \* "unreadable" (it exists and is a regular file, but open() fails)
    log_state, log_lines,
    \* the fields of each MMELogParser instance
    self,
    \* one reconstruction pass, line by line: the window, the loop index and
    \* the locals of parse_logs / parse_ue_sessions
    f_kind, lines, f_i, connections, refused_ips, sessions, pending_context,
    last_enb_ue_count, last_session_count, f_pc, f_ret,
    \* sequential queries: the last operation run on the file as it is now,
    \* the parser that ran it, what it returned, and whether that parser has
    \* just run it twice in a row (1: once, 2: at least twice)
    lastP, lastOp, lastRet, lastReps,
    \* concurrent queries on the shared instance: per thread, the position in
    \* the operation, the thread's own reconstruction of the window it read
    \* (its locals after the loop), the result
    t_pc, t_op, t_own, t_ret,
    \* mongodb_client.py, update_subscriber: the subscriber document in the
    \* store, and of the last call the IMSI, the keyword arguments, the $set
    \* document sent to the store (empty when none was sent) and the outcome
    db_doc, upd_imsi, upd_updates, upd_sent, upd_ret,
    \* mongodb_client.py, get_client: the module global, the lock (its owner
    \* or "free"), the number of Open5GSClient objects constructed, and per
    \* thread the position in get_client and the instance it got
    client_instance, client_lock, client_made, g_pc, g_ret,
    \* grant_history.py: the snapshots of one eNodeB in the collection, in
    \* insertion order, and of the last get_grant_state_changes what
    \* get_history returned and what the call returned
    snapshots, history, changes

fileVars == <<log_state, log_lines>>
foldVars == <<f_kind, lines, f_i, connections, refused_ips, sessions, pending_context,
              last_enb_ue_count, last_session_count, f_pc, f_ret>>
seqVars == <<lastP, lastOp, lastRet, lastReps>>
thrVars == <<t_pc, t_op, t_own, t_ret>>
mmeVars == <<fileVars, self, foldVars, seqVars, thrVars>>
updVars == <<db_doc, upd_imsi, upd_updates, upd_sent, upd_ret>>
clientVars == <<client_instance, client_lock, client_made, g_pc, g_ret>>
histVars == <<snapshots, history, changes>>
libVars == <<updVars, clientVars, histVars>>
vars == <<mmeVars, libVars>>

\* MMELogParser.__init__
NewParser ==
    [_connections |-> EmptyMap, _ue_sessions |-> EmptyMap,
     _enb_ue_count |-> 0, _mme_session_count |-> 0]

\* What an operation hands back; the fields an operation does not produce
\* keep these defaults.
NoRet ==
    [map |-> EmptyMap, count |-> 0, enb_ue_count |-> 0, session_count |-> 0,
     available |-> FALSE]

NoOp == [name |-> "none", n |-> 0]

\* The locals of a pass once its loop has ended: whether a loop was run at
\* all, the filtered maps and the last counts.
NoOwn ==
    [ran |-> FALSE, connections |-> EmptyMap, sessions |-> EmptyMap,
     last_enb_ue_count |-> 0, last_session_count |-> 0]

InitFile == log_state = "ok" /\ log_lines = <<>>
InitParsers == self = [p \in Parsers |-> NewParser]
InitFold ==
    /\ f_kind = "none" /\ lines = <<>> /\ f_i = 0
    /\ connections = EmptyMap /\ refused_ips = {}
    /\ sessions = EmptyMap /\ pending_context = EmptyMap
    /\ last_enb_ue_count = 0 /\ last_session_count = 0
    /\ f_pc = "idle" /\ f_ret = EmptyMap
InitSeq ==
    /\ lastP = "none" /\ lastOp = NoOp /\ lastRet = NoRet /\ lastReps = 0
InitThreads ==
    /\ t_pc = [t \in Threads |-> "idle"]
    /\ t_op = [t \in Threads |-> "none"]
    /\ t_own = [t \in Threads |-> NoOwn]
    /\ t_ret = [t \in Threads |-> NoRet]

\* ------------------------------------- subscriber store and grant history
\* Whitelist of fields that can be updated via update_subscriber.
ALLOWED_UPDATE_FIELDS == {"device_name", "slice", "ambr"}

\* Keyword names callers pass to update_subscriber.
UpdateFields == ALLOWED_UPDATE_FIELDS \cup {"security"}

\* Field values are abstract: 1 is the provisioned value of every field.
FieldValues == {1, 2}

\* The subscriber document as provisioned (add_subscriber), its IMSI apart.
ProvisionedDoc == [f \in UpdateFields |-> 1]

\* An imsi argument: whether it is a str at all, and its characters.
ImsiArg(isstr, chars) == [isstr |-> isstr, chars |-> chars]

NoImsi == ImsiArg(FALSE, <<>>)

InitUpd ==
    /\ db_doc = ProvisionedDoc
    /\ upd_imsi = NoImsi /\ upd_updates = EmptyMap /\ upd_sent = EmptyMap
    /\ upd_ret = "none"

\* Threads that call get_client.
Callers == {"c1", "c2", "c3"}

InitClient ==
    /\ client_instance = NoneInt /\ client_lock = "free" /\ client_made = 0
    /\ g_pc = [t \in Callers |-> "idle"]
    /\ g_ret = [t \in Callers |-> NoneInt]

InitHist == snapshots = <<>> /\ history = <<>> /\ changes = <<>>

InitLib == InitUpd /\ InitClient /\ InitHist

\* ------------------------------------------- one pass, one line per step
\* The window has been read (lines = self._read_log_lines(...)); the locals
\* are fresh.
InitPass ==
    /\ InitFile /\ InitParsers /\ InitSeq /\ InitThreads /\ InitLib
    /\ f_kind \in {"logs", "ue"}
    /\ lines \in Windows(IF f_kind = "logs" THEN ConnLines ELSE UeLines)
    /\ f_i = 0
    /\ connections = EmptyMap /\ refused_ips = {}
    /\ sessions = EmptyMap /\ pending_context = EmptyMap
    /\ last_enb_ue_count = 0 /\ last_session_count = 0
    /\ f_pc = "loop" /\ f_ret = EmptyMap

LogsLocals == [connections |-> connections, refused_ips |-> refused_ips]
UeLocals ==
    [sessions |-> sessions, pending_context |-> pending_context,
     last_enb_ue_count |-> last_enb_ue_count, last_session_count |-> last_session_count]

\* if not lines: return {}
ReturnEmpty ==
    /\ f_pc = "loop" /\ lines = <<>>
    /\ f_pc' = "done" /\ f_ret' = EmptyMap
    /\ UNCHANGED <<libVars, fileVars, self, seqVars, thrVars, f_kind, lines, f_i, connections,
                   refused_ips, sessions, pending_context, last_enb_ue_count,
                   last_session_count>>

\* One iteration of "for line in lines" of parse_logs.
FoldLogsStep ==
    /\ f_kind = "logs" /\ f_pc = "loop" /\ f_i < Len(lines)
    /\ LET st == FoldLogsLine(LogsLocals, lines[f_i + 1])
       IN /\ connections' = st.connections
          /\ refused_ips' = st.refused_ips
    /\ f_i' = f_i + 1
    /\ UNCHANGED <<libVars, fileVars, self, seqVars, thrVars, f_kind, lines, sessions,
                   pending_context, last_enb_ue_count, last_session_count, f_pc, f_ret>>

\* self._connections = {...}; return self._connections
StoreLogs ==
    /\ f_kind = "logs" /\ f_pc = "loop" /\ lines # <<>> /\ f_i = Len(lines)
    /\ self' = [self EXCEPT !["p1"]._connections = ConnectedOf(LogsLocals)]
    /\ f_ret' = ConnectedOf(LogsLocals)
    /\ f_pc' = "done"
    /\ UNCHANGED <<libVars, fileVars, seqVars, thrVars, f_kind, lines, f_i, connections,
                   refused_ips, sessions, pending_context, last_enb_ue_count,
                   last_session_count>>

\* One iteration of "for line in lines" of parse_ue_sessions.
FoldUeStep ==
    /\ f_kind = "ue" /\ f_pc = "loop" /\ f_i < Len(lines)
    /\ LET st == FoldUeLine(UeLocals, lines[f_i + 1])
       IN /\ sessions' = st.sessions
          /\ pending_context' = st.pending_context
          /\ last_enb_ue_count' = st.last_enb_ue_count
          /\ last_session_count' = st.last_session_count
    /\ f_i' = f_i + 1
    /\ UNCHANGED <<libVars, fileVars, self, seqVars, thrVars, f_kind, lines, connections,
                   refused_ips, f_pc, f_ret>>

\* Store the counts and the attached sessions; return self._ue_sessions.
StoreUe ==
    /\ f_kind = "ue" /\ f_pc = "loop" /\ lines # <<>> /\ f_i = Len(lines)
    /\ self' = [self EXCEPT !["p1"]._enb_ue_count = last_enb_ue_count,
                            !["p1"]._mme_session_count = last_session_count,
                            !["p1"]._ue_sessions = AttachedOf(UeLocals)]
    /\ f_ret' = AttachedOf(UeLocals)
    /\ f_pc' = "done"
    /\ UNCHANGED <<libVars, fileVars, seqVars, thrVars, f_kind, lines, f_i, connections,
                   refused_ips, sessions, pending_context, last_enb_ue_count,
                   last_session_count>>

NextPass == ReturnEmpty \/ FoldLogsStep \/ StoreLogs \/ FoldUeStep \/ StoreUe

SpecFold == InitPass /\ [][NextPass]_vars

\* ---------------------------------------------------- events of the window
\* Line i of the window yields the event (the first match of the rule).
AccAt(i, ip) == Matches(lines[i], "accepted") /\ Match(lines[i], "accepted").id = ip
RefAt(i, ip) == Matches(lines[i], "refused") /\ Match(lines[i], "refused").id = ip
AttAt(i, x, event) ==
    /\ Matches(lines[i], "attach")
    /\ Match(lines[i], "attach").id = x
    /\ Match(lines[i], "attach").txt = event
AttAnyAt(i, x) == Matches(lines[i], "attach") /\ Match(lines[i], "attach").id = x
DetAt(i, x) == Matches(lines[i], "detach") /\ Match(lines[i], "detach").id = x
RemAt(i, x) == Matches(lines[i], "removed") /\ Match(lines[i], "removed").id = x
CtxAt(i, x) ==
    /\ Matches(lines[i], "context")
    /\ Matches(lines[i], "imsi")
    /\ Match(lines[i], "imsi").id = x
LifeAt(i, x) == AttAnyAt(i, x) \/ DetAt(i, x) \/ RemAt(i, x)

Last(S) == CHOOSE i \in S : \A j \in S : j <= i

PassDone(kind) == f_kind = kind /\ f_pc = "done"

\* ------------------------------------------------------------------ C5
\* C5: after the connection fold of a window, an address is in the connected
\* result iff the window holds a ConnectionAccepted for it and no
\* ConnectionRefused for it is folded after its last ConnectionAccepted
\* (on one line the refusal is folded after the accept).
C5_ConnectedIffNoLaterRefusal ==
    PassDone("logs") =>
        \A ip \in IPs :
            (ip \in DOMAIN f_ret) <=>
                (\E i \in 1..Len(lines) :
                    AccAt(i, ip) /\ \A j \in i..Len(lines) : ~RefAt(j, ip))

\* Accepted after refused: the address is present.
C5_Witness ==
    /\ PassDone("logs")
    /\ \E ip \in DOMAIN f_ret : \E i, j \in 1..Len(lines) :
          i < j /\ RefAt(i, ip) /\ AccAt(j, ip)

\* ------------------------------------------------------------------ C6
\* C6: an identifier is in the attached list iff the last of its attach /
\* detach / session-removed events in the window is an AttachCompleted.
C6_AttachedIffLastIsComplete ==
    PassDone("ue") =>
        \A x \in IMSIs :
            (x \in DOMAIN f_ret) <=>
                (\E i \in 1..Len(lines) :
                    /\ AttAt(i, x, "Attach complete")
                    /\ ~DetAt(i, x) /\ ~RemAt(i, x)
                    /\ \A j \in (i + 1)..Len(lines) : ~LifeAt(j, x))

\* Detached, then attached again by request and complete.
C6_Witness ==
    /\ PassDone("ue")
    /\ \E x \in DOMAIN f_ret : \E i, k, j \in 1..Len(lines) :
          /\ i < k /\ k < j
          /\ AttAt(i, x, "Attach request") /\ DetAt(k, x) /\ AttAt(j, x, "Attach complete")

\* ------------------------------------------------------------------ C7
StateOf(ss, x) == IF x \in DOMAIN ss THEN ss[x].state ELSE "absent"

\* C7 as claimed: a session's state changes only by absent -> attaching,
\* attaching -> attached, attached -> detached.
C7_OnlyThreeTransitions ==
    [][\A x \in IMSIs :
          \/ StateOf(sessions', x) = StateOf(sessions, x)
          \/ <<StateOf(sessions, x), StateOf(sessions', x)>> \in
                 { <<"absent", "attaching">>, <<"attaching", "attached">>,
                   <<"attached", "detached">> }]_vars

\* C7 as amended: the state is always attaching, attached or detached; a
\* session never disappears; folding a line changes an identifier's state
\* only to attaching by an AttachRequested, to attached by an AttachCompleted,
\* or to detached by a DetachRequested / SessionRemoved for an identifier
\* that has a session, and each of these may start from any state.
C7_StateSetByEventKind ==
    [][\A x \in IMSIs :
          LET a == StateOf(sessions, x)
              b == StateOf(sessions', x)
              i == f_i + 1
          IN /\ b \in {"absent", "attaching", "attached", "detached"}
             /\ a # "absent" => b # "absent"
             /\ a # b =>
                   /\ f_kind = "ue" /\ f_pc = "loop" /\ f_i < Len(lines)
                   /\ b = "attaching" => AttAt(i, x, "Attach request")
                   /\ b = "attached" => AttAt(i, x, "Attach complete")
                   /\ b = "detached" =>
                         /\ DetAt(i, x) \/ RemAt(i, x)
                         /\ a # "absent" \/ AttAnyAt(i, x)]_vars

\* A detached session was attached again (a transition the claim excludes).
C7_Witness ==
    /\ f_kind = "ue" /\ f_i >= 2
    /\ \E x \in DOMAIN sessions :
          /\ sessions[x].state = "attached"
          /\ AttAt(f_i, x, "Attach complete") /\ ~DetAt(f_i, x) /\ ~RemAt(f_i, x)
          /\ \E k, m \in 1..(f_i - 1) : k < m /\ AttAnyAt(k, x) /\ DetAt(m, x)

\* ------------------------------------------------------------------ C8
\* C8: after a line with an attach event for an identifier has been folded,
\* the pending-context side-table holds no entry for that identifier.
C8_PendingConsumed ==
    (f_kind = "ue" /\ f_i >= 1) =>
        \A x \in IMSIs : AttAnyAt(f_i, x) => x \notin DOMAIN pending_context

\* ------------------------------------------------------------------ C9
CtxBefore(x, j) == {i \in 1..j : CtxAt(i, x)}
AttachLines(x) == {j \in 1..Len(lines) : AttAnyAt(j, x)}

\* C9: a session of the attached list carries the two context identifiers
\* iff a ContextAssigned line for its identifier was folded no later than one
\* of its attach events; then they are those of the latest context line not
\* after the identifier's latest attach event; otherwise both are absent.
C9_ContextFromLatestPrecedingLine ==
    PassDone("ue") =>
        \A x \in DOMAIN f_ret :
            IF \E j \in AttachLines(x) : CtxBefore(x, j) # {}
            THEN LET c == Match(lines[Last(CtxBefore(x, Last(AttachLines(x))))], "context")
                 IN /\ f_ret[x].enb_ue_s1ap_id = c.n /\ f_ret[x].mme_ue_s1ap_id = c.m
                    /\ f_ret[x].enb_ue_s1ap_id # NoneInt
                    /\ f_ret[x].mme_ue_s1ap_id # NoneInt
            ELSE /\ f_ret[x].enb_ue_s1ap_id = NoneInt
                 /\ f_ret[x].mme_ue_s1ap_id = NoneInt

\* Two different context lines precede the attach: the later one is carried.
C9_Witness ==
    /\ PassDone("ue")
    /\ \E x \in DOMAIN f_ret : \E i, k, j \in 1..Len(lines) :
          /\ i < k /\ k < j
          /\ CtxAt(i, x) /\ CtxAt(k, x) /\ AttAnyAt(j, x)
          /\ Match(lines[i], "context") # Match(lines[k], "context")
          /\ f_ret[x].enb_ue_s1ap_id = Match(lines[k], "context").n

\* ------------------------------------------------------------------ C10
\* C10: folding SessionRemoved(X, Y) for an X that has a session sets X's
\* network name to Y and its state to detached, with or without a
\* DetachRequested; X is then absent from the attached list unless an
\* AttachCompleted for X is folded later.
C10_SessionRemovedDetaches ==
    /\ (f_kind = "ue" /\ f_i >= 1) =>
          \A x \in DOMAIN sessions :
              RemAt(f_i, x) =>
                  /\ sessions[x].apn = Match(lines[f_i], "removed").txt
                  /\ sessions[x].state = "detached"
    /\ PassDone("ue") =>
          \A x \in IMSIs : \A i \in 1..Len(lines) :
              ( /\ RemAt(i, x)
                /\ \E k \in 1..i : AttAnyAt(k, x)
                /\ \A j \in (i + 1)..Len(lines) : ~AttAt(j, x, "Attach complete") )
              => x \notin DOMAIN f_ret

\* An attached session removed with no Detach request anywhere in the window.
C10_Witness ==
    /\ f_kind = "ue" /\ f_i >= 2
    /\ \E x \in DOMAIN sessions :
          /\ RemAt(f_i, x)
          /\ AttAt(f_i - 1, x, "Attach complete")
          /\ \A k \in 1..Len(lines) : ~DetAt(k, x)
          /\ sessions[x].state = "detached" /\ sessions[x].apn = "ims"

\* ------------------------------------------------------------------ C11
\* The lines among the first j of the window that carry a CounterUpdate of
\* the kind.
CountLines(kind, j) == {i \in 1..j : Matches(lines[i], kind)}

\* The value of the last CounterUpdate of the kind among the first j lines,
\* zero when there is none.
LastCount(kind, j) ==
    IF CountLines(kind, j) = {} THEN 0
    ELSE Match(lines[Last(CountLines(kind, j))], kind).n

\* C11: at every step of a session pass the two aggregate counters are the
\* values of the last CounterUpdate of each kind folded so far (zero when
\* none), and these are the values the pass stores; the number of attached
\* sessions plays no part.
C11_CountersAreLastUpdates ==
    /\ (f_kind = "ue" /\ f_pc = "loop") =>
          /\ last_enb_ue_count = LastCount("enb_ue", f_i)
          /\ last_session_count = LastCount("mme_sess", f_i)
    /\ PassDone("ue") =>
          /\ self["p1"]._enb_ue_count = LastCount("enb_ue", Len(lines))
          /\ self["p1"]._mme_session_count = LastCount("mme_sess", Len(lines))

\* The counters went up and down again while a session stays attached: the
\* pass stores eNB-UE count 0 with one session in the attached list.
C11_Witness ==
    /\ PassDone("ue")
    /\ Cardinality(DOMAIN f_ret) = 1
    /\ self["p1"]._enb_ue_count = 0
    /\ \E i, j \in 1..Len(lines) :
          /\ i < j
          /\ Matches(lines[i], "enb_ue") /\ Match(lines[i], "enb_ue").n = 1
          /\ Matches(lines[j], "enb_ue") /\ Match(lines[j], "enb_ue").n = 0

\* ------------------------------------------------------------------ C12
StrAt(i, ip) == Matches(lines[i], "streams") /\ Match(lines[i], "streams").id = ip

\* C12: folding a line whose only event is a StreamInfo for an address
\* changes nothing when the address has no Connection, and otherwise sets
\* the substream count of that Connection and nothing else.
C12_StreamInfoFrame ==
    [][\A ip \in IPs :
          ( /\ f_kind = "logs" /\ f_pc = "loop" /\ f_i < Len(lines)
            /\ StrAt(f_i + 1, ip)
            /\ ~Matches(lines[f_i + 1], "accepted")
            /\ ~Matches(lines[f_i + 1], "refused") )
          => /\ refused_ips' = refused_ips
             /\ DOMAIN connections' = DOMAIN connections
             /\ \A a \in DOMAIN connections :
                   IF a = ip
                   THEN connections'[a] =
                            [connections[a] EXCEPT
                                !.sctp_streams = Match(lines[f_i + 1], "streams").n]
                   ELSE connections'[a] = connections[a]]_vars

\* A StreamInfo before the accept left no Connection; the one after the
\* accept set the substream count of the existing Connection.
C12_Witness ==
    /\ f_kind = "logs" /\ f_i = 3 /\ Len(lines) = 3
    /\ \E ip \in DOMAIN connections :
          /\ StrAt(1, ip) /\ ~AccAt(1, ip)
          /\ AccAt(2, ip) /\ ~StrAt(2, ip) /\ ~RefAt(2, ip)
          /\ StrAt(3, ip) /\ ~AccAt(3, ip) /\ ~RefAt(3, ip)
          /\ connections[ip].sctp_streams = Match(lines[3], "streams").n
          /\ connections[ip].port = Match(lines[2], "accepted").n
          /\ connections[ip].connected_at = ExtractTimestamp(lines[2])
          /\ connections[ip].is_connected

\* ------------------------------------------------------------------ C13
CompleteLines(x) == {i \in 1..Len(lines) : AttAt(i, x, "Attach complete")}

\* C13: every entry of the attached list carries an attach timestamp, the
\* one of the line carrying its most recent Attach complete.
C13_AttachedHasTimestamp ==
    PassDone("ue") =>
        \A x \in DOMAIN f_ret :
            /\ f_ret[x].attached_at # NoneInt
            /\ f_ret[x].attached_at = ExtractTimestamp(lines[Last(CompleteLines(x))])

\* ------------------------------------------------------------------ C20
\* No two entries of the map carry the same value in the field.
OnePerAddress(conns) ==
    \A a, b \in DOMAIN conns : conns[a].ip_address = conns[b].ip_address => a = b

OnePerIdentifier(sess) ==
    \A a, b \in DOMAIN sess : sess[a].imsi = sess[b].imsi => a = b

\* C20: at every step of a pass, in what the pass returns and in what it
\* stores, there is at most one Connection per address and at most one
\* Session per identifier, and no more entities than addresses accepted or
\* identifiers attached so far.
C20_OneEntityPerKey ==
    /\ OnePerAddress(connections) /\ OnePerIdentifier(sessions)
    /\ OnePerAddress(self["p1"]._connections)
    /\ OnePerIdentifier(self["p1"]._ue_sessions)
    /\ f_kind = "logs" => OnePerAddress(f_ret)
    /\ f_kind = "ue" => OnePerIdentifier(f_ret)
    /\ f_kind = "logs" =>
          Cardinality(DOMAIN connections) =
              Cardinality({ip \in IPs : \E i \in 1..f_i : AccAt(i, ip)})
    /\ f_kind = "ue" =>
          Cardinality(DOMAIN sessions) =
              Cardinality({x \in IMSIs : \E i \in 1..f_i : AttAnyAt(i, x)})

\* The window repeats the accepted line of one address with another port:
\* the result holds one Connection for the address, the later one.
C20_Witness ==
    /\ PassDone("logs")
    /\ \E ip \in DOMAIN f_ret : \E i, j \in 1..Len(lines) :
          /\ i < j /\ AccAt(i, ip) /\ AccAt(j, ip)
          /\ Match(lines[i], "accepted").n # Match(lines[j], "accepted").n
          /\ \A k \in (j + 1)..Len(lines) : ~AccAt(k, ip)
          /\ f_ret[ip].port = Match(lines[j], "accepted").n
          /\ Cardinality({a \in DOMAIN f_ret : f_ret[a].ip_address = ip}) = 1

\* ------------------------------------------------------------------ C21
\* C21: a session is created only by an attach event.  Folding a line with
\* no attach event creates no session, and when its DetachRequested /
\* SessionRemoved (if any) name identifiers that have no session it leaves
\* every session unchanged; an identifier with no attach event in the window
\* has no session and is absent from the attached list.
C21_OnlyAttachCreates ==
    [][/\ ( /\ f_kind = "ue" /\ f_pc = "loop" /\ f_i < Len(lines)
            /\ ~Matches(lines[f_i + 1], "attach") )
           => /\ DOMAIN sessions' = DOMAIN sessions
              /\ (\A x \in DOMAIN sessions : ~DetAt(f_i + 1, x) /\ ~RemAt(f_i + 1, x))
                    => sessions' = sessions
       /\ \A x \in IMSIs :
             (f_kind = "ue" /\ \A i \in 1..f_i' : ~AttAnyAt(i, x))
                => x \notin DOMAIN sessions' /\ x \notin DOMAIN f_ret']_vars

\* One identifier is attached, another one is seen only in a Removed Session
\* line and in a context line: it has no session.
C21_Witness ==
    /\ PassDone("ue")
    /\ \E x, y \in IMSIs :
          /\ x \in DOMAIN f_ret /\ y \notin DOMAIN sessions
          /\ \E i, j \in 1..Len(lines) : i < j /\ AttAnyAt(i, x) /\ RemAt(j, y)

\* ------------------------------------------------------------------ C24
\* C24: every rule a line matches is folded, in the fixed order.  On a
\* connection line: an accept and a StreamInfo for one address give the new
\* Connection that substream count, an accept and a refusal leave it refused.
\* On a session line: a counter update is recorded whatever else the line
\* matches; a context pair is recorded and, with an attach event for the
\* identifier on the same line, applied to the session by that line; a
\* detach or removal on the line of an attach leaves the session detached.
C24_EveryMatchingRuleFolded ==
    [][/\ (f_kind = "logs" /\ f_pc = "loop" /\ f_i < Len(lines)) =>
             \A ip \in IPs :
                LET i == f_i + 1
                IN /\ AccAt(i, ip) =>
                         /\ ip \in DOMAIN connections'
                         /\ connections'[ip].port = Match(lines[i], "accepted").n
                   /\ (AccAt(i, ip) /\ StrAt(i, ip)) =>
                         connections'[ip].sctp_streams = Match(lines[i], "streams").n
                   /\ RefAt(i, ip) => ip \in refused_ips'
                   /\ (AccAt(i, ip) /\ RefAt(i, ip)) => ~connections'[ip].is_connected
       /\ (f_kind = "ue" /\ f_pc = "loop" /\ f_i < Len(lines)) =>
             LET i == f_i + 1
             IN /\ Matches(lines[i], "enb_ue") =>
                      last_enb_ue_count' = Match(lines[i], "enb_ue").n
                /\ Matches(lines[i], "mme_sess") =>
                      last_session_count' = Match(lines[i], "mme_sess").n
                /\ \A x \in IMSIs :
                      /\ CtxAt(i, x) =>
                            /\ x \in DOMAIN pending_context'
                            /\ pending_context'[x].enb = Match(lines[i], "context").n
                            /\ pending_context'[x].mme = Match(lines[i], "context").m
                      /\ (CtxAt(i, x) /\ AttAnyAt(i, x)) =>
                            /\ sessions'[x].enb_ue_s1ap_id = Match(lines[i], "context").n
                            /\ sessions'[x].mme_ue_s1ap_id = Match(lines[i], "context").m
                      /\ AttAnyAt(i, x) => x \in DOMAIN sessions'
                      /\ (AttAnyAt(i, x) /\ (DetAt(i, x) \/ RemAt(i, x))) =>
                            sessions'[x].state = "detached"
                      /\ (AttAt(i, x, "Attach complete") /\ ~DetAt(i, x) /\ ~RemAt(i, x)) =>
                            sessions'[x].state = "attached"]_vars

\* One line carried a context pair, an attach event for the same identifier
\* and a counter update: all three were folded.
C24_Witness ==
    /\ f_kind = "ue" /\ f_i >= 1
    /\ \E x \in DOMAIN sessions :
          /\ CtxAt(f_i, x) /\ AttAt(f_i, x, "Attach complete")
          /\ Matches(lines[f_i], "enb_ue")
          /\ sessions[x].state = "attached"
          /\ sessions[x].enb_ue_s1ap_id = Match(lines[f_i], "context").n
          /\ last_enb_ue_count = Match(lines[f_i], "enb_ue").n
          /\ last_enb_ue_count # 0

\* ------------------------------------------------------------------ C26
\* C26: at every step of the connection fold, an address that has a
\* Connection has its connected flag true exactly when it is not in the
\* refused set.
C26_FlagIffNotRefused ==
    f_kind = "logs" =>
        \A ip \in DOMAIN connections :
            connections[ip].is_connected <=> ip \notin refused_ips

\* One Connection is refused (flag false, address marked), another one is
\* connected again after an earlier refusal.
C26_Witness ==
    /\ f_kind = "logs"
    /\ \E a, b \in DOMAIN connections :
          /\ ~connections[a].is_connected /\ a \in refused_ips
          /\ connections[b].is_connected /\ b \notin refused_ips
          /\ \E i, j \in 1..f_i : i < j /\ RefAt(i, b) /\ AccAt(j, b)

\* ------------------------------------------------------------------ C27
AcceptLines(ip, j) == {i \in 1..j : AccAt(i, ip)}
StreamLines(ip, j) == {i \in 1..j : StrAt(i, ip)}

\* C27: at every step of the connection fold the Connection of an address
\* is the one built by its latest accept: port and accepted-at are those of
\* that line, and the substream count is that of the last StreamInfo folded
\* no earlier than that line, absent when there is none.
C27_LatestAcceptReplaces ==
    f_kind = "logs" =>
        \A ip \in DOMAIN connections :
            LET a == Last(AcceptLines(ip, f_i))
                later == {i \in StreamLines(ip, f_i) : i >= a}
            IN /\ connections[ip].port = Match(lines[a], "accepted").n
               /\ connections[ip].connected_at = ExtractTimestamp(lines[a])
               /\ connections[ip].sctp_streams =
                      IF later = {} THEN NoneInt
                      ELSE Match(lines[Last(later)], "streams").n

\* Accepted, StreamInfo, accepted again on another port: the substream count
\* of the first Connection is gone.
C27_Witness ==
    /\ PassDone("logs")
    /\ \E ip \in DOMAIN f_ret : \E i, k, j \in 1..Len(lines) :
          /\ i < k /\ k < j
          /\ AccAt(i, ip) /\ StrAt(k, ip) /\ ~AccAt(k, ip) /\ AccAt(j, ip) /\ ~StrAt(j, ip)
          /\ \A m \in (j + 1)..Len(lines) : ~StrAt(m, ip) /\ ~AccAt(m, ip)
          /\ f_ret[ip].sctp_streams = NoneInt
          /\ f_ret[ip].port = Match(lines[j], "accepted").n

\* ------------------------------------------------------------------ C28
\* C28: detach events never reset a session's other fields, and an attach
\* event reuses the session.  Folding a line whose only lifecycle event for
\* an identifier with a session is a DetachRequested changes only the state;
\* a SessionRemoved changes only the state and the network name; an attach
\* event keeps the network name, and keeps the context identifiers unless a
\* context pair is pending for the identifier.
C28_DetachKeepsFields ==
    [][(f_kind = "ue" /\ f_pc = "loop" /\ f_i < Len(lines)) =>
          \A x \in DOMAIN sessions :
             LET i == f_i + 1
                 s0 == sessions[x]
                 s1 == sessions'[x]
             IN /\ (DetAt(i, x) /\ ~AttAnyAt(i, x) /\ ~RemAt(i, x))
                      => s1 = [s0 EXCEPT !.state = "detached"]
                /\ (RemAt(i, x) /\ ~AttAnyAt(i, x))
                      => s1 = [s0 EXCEPT !.state = "detached",
                                         !.apn = Match(lines[i], "removed").txt]
                /\ (AttAnyAt(i, x) /\ ~RemAt(i, x))
                      => /\ s1.apn = s0.apn /\ s1.imsi = s0.imsi
                         /\ IF x \in DOMAIN pending_context'
                            THEN /\ s1.enb_ue_s1ap_id = pending_context'[x].enb
                                 /\ s1.mme_ue_s1ap_id = pending_context'[x].mme
                            ELSE /\ s1.enb_ue_s1ap_id = s0.enb_ue_s1ap_id
                                 /\ s1.mme_ue_s1ap_id = s0.mme_ue_s1ap_id
                         /\ Match(lines[i], "attach").txt = "Attach request"
                               => s1.attached_at = s0.attached_at]_vars

\* A session removed with network name "ims" and attached again is exposed
\* with that network name.
C28_Witness ==
    /\ PassDone("ue")
    /\ \E x \in DOMAIN f_ret : \E i, k, j \in 1..Len(lines) :
          /\ i < k /\ k < j
          /\ AttAnyAt(i, x) /\ RemAt(k, x) /\ AttAt(j, x, "Attach complete")
          /\ f_ret[x].apn = Match(lines[k], "removed").txt
          /\ f_ret[x].apn # "internet"

\* ------------------------------------------------- the reader and the facade
\* lines_to_read of parse_logs when the caller gives none.
DefaultLinesToRead == 2000
\* lines_to_read of parse_ue_sessions when the caller gives none.
UeDefaultLinesToRead == 2000

\* is_available: the path exists and is a regular file.
IsAvailable(state) == state # "missing"

\* lines[-n:] of a list longer than n (Python slicing: -0 is 0).
Tail_n(flines, n) ==
    IF n = 0 THEN flines
    ELSE SubSeq(flines, Len(flines) - n + 1, Len(flines))

ReadLogLinesWholeFile(state, flines, n) ==
    IF ~IsAvailable(state) THEN <<>>
    ELSE IF state = "unreadable" THEN <<>>
    ELSE flines

\* _read_log_lines: [] when the file is not available or the read fails.
ReadLogLines(state, flines, n) ==
    IF ~IsAvailable(state) THEN <<>>
    ELSE IF state = "unreadable" THEN <<>>
    ELSE IF Len(flines) > n THEN Tail_n(flines, n) ELSE flines

\* parse_logs on the window it read: the new fields of the parser and the
\* map returned.
ParseLogs(me, window) ==
    IF window = <<>>
    THEN [self |-> me, ret |-> EmptyMap]
    ELSE LET c == ConnectedOf(FoldLogs(LogsStart, window))
         IN [self |-> [me EXCEPT !._connections = c], ret |-> c]

\* parse_ue_sessions on the window it read.
ParseUeSessions(me, window) ==
    IF window = <<>>
    THEN [self |-> me, ret |-> EmptyMap]
    ELSE LET st == FoldUe(UeStart, window)
         IN [self |-> [me EXCEPT !._enb_ue_count = st.last_enb_ue_count,
                                 !._mme_session_count = st.last_session_count,
                                 !._ue_sessions = AttachedOf(st)],
             ret |-> AttachedOf(st)]

\* f"eNodeB @ {conn.ip_address}"
EnodebName(ip) ==
    CASE ip = "10.0.1.5" -> "eNodeB @ 10.0.1.5"
      [] ip = "10.0.1.14" -> "eNodeB @ 10.0.1.14"
      [] OTHER -> "eNodeB @ "

\* datetime.isoformat(), None kept.
IsoFormat(t) ==
    CASE t = 1 -> "T00:00:01"
      [] t = 2 -> "T00:00:02"
      [] OTHER -> NoneStr

\* The list built by get_connected_enodebs, keyed by address.
EnodebList(conns) ==
    LET keep == {ip \in DOMAIN conns : conns[ip].is_connected}
    IN [ip \in keep |->
           [id |-> conns[ip].enb_id, ip |-> conns[ip].ip_address, port |-> conns[ip].port,
            name |-> EnodebName(conns[ip].ip_address), connected |-> conns[ip].is_connected,
            connected_at |-> IsoFormat(conns[ip].connected_at),
            sctp_streams |-> conns[ip].sctp_streams]]

\* UESession.to_dict over the returned sessions, keyed by identifier.
SessionList(sess) ==
    [x \in DOMAIN sess |-> [sess[x] EXCEPT !.attached_at = IsoFormat(@)]]

Size(map) == Cardinality(DOMAIN map)

\* Each operation, run from start to end on one state of the file: the new
\* fields of the parser and what the caller gets.
OpParseLogs(me, state, flines, n) ==
    LET r == ParseLogs(me, ReadLogLines(state, flines, n))
    IN [self |-> r.self, ret |-> [NoRet EXCEPT !.map = r.ret]]

OpParseUeSessions(me, state, flines, n) ==
    LET r == ParseUeSessions(me, ReadLogLines(state, flines, n))
    IN [self |-> r.self, ret |-> [NoRet EXCEPT !.map = r.ret]]

GetConnectedEnodebs(me, state, flines) ==
    LET r == ParseLogs(me, ReadLogLines(state, flines, DefaultLinesToRead))
    IN [self |-> r.self, ret |-> [NoRet EXCEPT !.map = EnodebList(r.ret)]]

GetEnbCountOfCache(me, state, flines) ==
    LET r == ParseLogs(me, ReadLogLines(state, flines, DefaultLinesToRead))
    IN [self |-> r.self,
        ret |-> [NoRet EXCEPT !.count =
                    Cardinality({ip \in DOMAIN r.self._connections :
                                    r.self._connections[ip].is_connected})]]

GetEnbCount(me, state, flines) ==
    LET r == ParseLogs(me, ReadLogLines(state, flines, DefaultLinesToRead))
    IN [self |-> r.self,
        ret |-> [NoRet EXCEPT !.count =
                    Cardinality({ip \in DOMAIN r.ret : r.ret[ip].is_connected})]]

GetUeSessions(me, state, flines) ==
    LET r == ParseUeSessions(me, ReadLogLines(state, flines, UeDefaultLinesToRead))
    IN [self |-> r.self, ret |-> [NoRet EXCEPT !.map = SessionList(r.ret)]]

GetUeCountReadsBeforeParse(me, state, flines) ==
    LET r == ParseUeSessions(me, ReadLogLines(state, flines, UeDefaultLinesToRead))
    IN [self |-> r.self, ret |-> [NoRet EXCEPT !.count = me._enb_ue_count]]

GetUeCount(me, state, flines) ==
    LET r == ParseUeSessions(me, ReadLogLines(state, flines, UeDefaultLinesToRead))
    IN [self |-> r.self, ret |-> [NoRet EXCEPT !.count = r.self._enb_ue_count]]

GetSessionCount(me, state, flines) ==
    LET r == ParseUeSessions(me, ReadLogLines(state, flines, UeDefaultLinesToRead))
    IN [self |-> r.self, ret |-> [NoRet EXCEPT !.count = r.self._mme_session_count]]

GetUeStatusSummary(me, state, flines) ==
    LET r == GetUeSessions(me, state, flines)
    IN [self |-> r.self,
        ret |-> [map |-> r.ret.map, count |-> Size(r.ret.map),
                 enb_ue_count |-> r.self._enb_ue_count,
                 session_count |-> r.self._mme_session_count,
                 available |-> IsAvailable(state)]]

GetConnectionStatusSummary(me, state, flines) ==
    LET r == GetConnectedEnodebs(me, state, flines)
    IN [self |-> r.self,
        ret |-> [NoRet EXCEPT !.map = r.ret.map, !.count = Size(r.ret.map),
                              !.available = IsAvailable(state)]]

\* --------------------------------------------- queries, one after the other
\* Lines the external process writes to the log.
FileLines ==
    { <<Timestamp(1), Accepted("10.0.1.5", 3223)>>,
      <<Timestamp(2), Attach(X1, "Attach complete")>>,
      <<EnbUeCount(1), SessionCount(2)>> }

\* lines_to_read as given by callers of parse_logs / parse_ue_sessions.
LinesToReadArgs == {0, 1, DefaultLinesToRead}

Forget == lastP' = "none" /\ lastOp' = NoOp /\ lastRet' = NoRet /\ lastReps' = 0

\* The external process appends a line.
ExtAppend ==
    /\ log_state = "ok" /\ Len(log_lines) < MaxFile
    /\ \E line \in FileLines : log_lines' = Append(log_lines, line)
    /\ Forget
    /\ UNCHANGED <<libVars, log_state, self, foldVars, thrVars>>

\* The external process appends a line that none of the patterns matches.
ExtAppendUnmatched ==
    /\ log_state = "ok" /\ Len(log_lines) < MaxFile
    /\ log_lines' = Append(log_lines, <<Text>>)
    /\ Forget
    /\ UNCHANGED <<libVars, log_state, self, foldVars, thrVars>>

\* The log file is removed (the core is stopped, or the file rotated away).
ExtRemove ==
    /\ log_state # "missing"
    /\ log_state' = "missing" /\ log_lines' = <<>>
    /\ Forget
    /\ UNCHANGED <<libVars, self, foldVars, thrVars>>

\* The log file is created again, empty.
ExtCreate ==
    /\ log_state = "missing"
    /\ log_state' = "ok" /\ log_lines' = <<>>
    /\ Forget
    /\ UNCHANGED <<libVars, self, foldVars, thrVars>>

\* The permissions of the file change: open() fails, or works again.
ExtChmod ==
    /\ log_state # "missing"
    /\ log_state' = IF log_state = "ok" THEN "unreadable" ELSE "ok"
    /\ Forget
    /\ UNCHANGED <<libVars, log_lines, self, foldVars, thrVars>>

\* Parser p runs an operation to its end: n is the window size it read with,
\* r is what the operation gives.
Ran(p, name, n, r) ==
    /\ self' = [self EXCEPT ![p] = r.self]
    /\ lastP' = p
    /\ lastOp' = [name |-> name, n |-> n]
    /\ lastRet' = r.ret
    /\ lastReps' = IF lastP = p /\ lastOp = [name |-> name, n |-> n] THEN 2 ELSE 1
    /\ UNCHANGED <<libVars, fileVars, foldVars, thrVars>>

SeqParseLogs(p) ==
    \E n \in LinesToReadArgs :
        Ran(p, "parse_logs", n, OpParseLogs(self[p], log_state, log_lines, n))
SeqParseUeSessions(p) ==
    \E n \in LinesToReadArgs :
        Ran(p, "parse_ue_sessions", n, OpParseUeSessions(self[p], log_state, log_lines, n))
SeqGetConnectedEnodebs(p) ==
    Ran(p, "get_connected_enodebs", DefaultLinesToRead, GetConnectedEnodebs(self[p], log_state, log_lines))
SeqGetEnbCount(p) ==
    Ran(p, "get_enb_count", DefaultLinesToRead, GetEnbCount(self[p], log_state, log_lines))
SeqGetUeSessions(p) ==
    Ran(p, "get_ue_sessions", UeDefaultLinesToRead, GetUeSessions(self[p], log_state, log_lines))
SeqGetUeCount(p) ==
    Ran(p, "get_ue_count", UeDefaultLinesToRead, GetUeCount(self[p], log_state, log_lines))
SeqGetSessionCount(p) ==
    Ran(p, "get_session_count", UeDefaultLinesToRead, GetSessionCount(self[p], log_state, log_lines))
SeqGetUeStatusSummary(p) ==
    Ran(p, "get_ue_status_summary", UeDefaultLinesToRead, GetUeStatusSummary(self[p], log_state, log_lines))
SeqGetConnectionStatusSummary(p) ==
    Ran(p, "get_connection_status_summary", DefaultLinesToRead,
        GetConnectionStatusSummary(self[p], log_state, log_lines))

InitSeqSpec == InitFile /\ InitParsers /\ InitFold /\ InitSeq /\ InitThreads /\ InitLib

NextSeq ==
    \/ ExtAppend \/ ExtAppendUnmatched \/ ExtRemove \/ ExtCreate \/ ExtChmod
    \/ \E p \in Parsers :
          \/ SeqParseLogs(p) \/ SeqParseUeSessions(p)
          \/ SeqGetConnectedEnodebs(p) \/ SeqGetEnbCount(p)
          \/ SeqGetUeSessions(p) \/ SeqGetUeCount(p) \/ SeqGetSessionCount(p)
          \/ SeqGetUeStatusSummary(p) \/ SeqGetConnectionStatusSummary(p)

SpecSeq == InitSeqSpec /\ [][NextSeq]_vars

\* ------------------------------------------------------------------ C1
\* C1: whenever the log file is missing or unreadable at the time of a
\* query, the query returns availability=false, an empty list and zero
\* counts, whatever earlier queries on the same parser returned.
C1_UnavailableGivesEmpty ==
    (lastOp.name # "none" /\ log_state # "ok") => lastRet = NoRet

\* ------------------------------------------------------------------ C4
\* C4: the result of a query depends only on the file content it ran on:
\* when a parser runs the query another parser just ran on the same file,
\* it returns the same result, whatever each of them was asked before.
C4_ResultDependsOnlyOnFile ==
    [][\A p \in Parsers :
          (lastOp.name # "none" /\ lastP # p /\ lastP' = p /\ lastOp' = lastOp)
              => lastRet' = lastRet]_vars

\* ------------------------------------------------------------------ C14
\* The last min(L, n) lines of a file of L lines, oldest first.
LastMin(flines, n) ==
    LET k == IF Len(flines) <= n THEN Len(flines) ELSE n
    IN SubSeq(flines, Len(flines) - k + 1, Len(flines))

\* C14: for a readable file and every window size n >= 0 a parse operation
\* is given, the window reader returns exactly the last min(L, n) lines of
\* the file, in file order.
C14_WindowIsLastMin ==
    (lastOp.name \in {"parse_logs", "parse_ue_sessions"} /\ log_state = "ok")
        => /\ ReadLogLines(log_state, log_lines, lastOp.n) = LastMin(log_lines, lastOp.n)
           /\ Len(ReadLogLines(log_state, log_lines, lastOp.n)) <= lastOp.n

\* ------------------------------------------------------------------ C15
\* C15: a read error makes every operation return the empty/default result:
\* an empty list and zero counts.
C15_ReadErrorGivesDefault ==
    (lastOp.name # "none" /\ log_state = "unreadable")
        => /\ lastRet.map = EmptyMap /\ lastRet.count = 0
           /\ lastRet.enb_ue_count = 0 /\ lastRet.session_count = 0

\* ------------------------------------------------------------------ C16
\* The lines of the file that report an accept / a refusal of the address.
AcceptedIn(flines, ip) ==
    {i \in 1..Len(flines) :
        Matches(flines[i], "accepted") /\ Match(flines[i], "accepted").id = ip}
RefusedIn(flines, ip) ==
    {i \in 1..Len(flines) :
        Matches(flines[i], "refused") /\ Match(flines[i], "refused").id = ip}

\* C16: on the same log content get_enb_count, the number of entries of
\* get_connected_enodebs and total_connected of the connection summary are
\* equal, whichever parser answers; a file with exactly one accepted line for
\* an address and no later refused line for it gives one entry for the
\* address, and a count of 1 when it is the only address.
C16_CountEqualsListSize ==
    [][/\ (lastOp.name = "get_connected_enodebs"
            /\ lastOp'.name \in {"get_enb_count", "get_connection_status_summary"})
           => lastRet'.count = Size(lastRet.map)
       /\ (lastOp.name \in {"get_enb_count", "get_connection_status_summary"}
            /\ lastOp'.name \in {"get_enb_count", "get_connection_status_summary"})
           => lastRet'.count = lastRet.count
       /\ lastOp'.name = "get_connection_status_summary"
           => lastRet'.count = Size(lastRet'.map)
       /\ (lastOp'.name \in {"get_connected_enodebs", "get_enb_count",
                              "get_connection_status_summary"}
            /\ log_state' = "ok")
           => \A ip \in IPs :
                 ( /\ Cardinality(AcceptedIn(log_lines', ip)) = 1
                   /\ \A i \in AcceptedIn(log_lines', ip) :
                         \A j \in RefusedIn(log_lines', ip) : j < i )
                 => /\ lastOp'.name # "get_enb_count" =>
                          /\ ip \in DOMAIN lastRet'.map
                          /\ lastRet'.map[ip].ip = ip
                    /\ (lastOp'.name # "get_connected_enodebs"
                         /\ \A other \in IPs \ {ip} : AcceptedIn(log_lines', other) = {})
                          => lastRet'.count = 1]_vars

\* get_enb_count answered 1 on a file with exactly one accepted line.
C16_Witness ==
    /\ lastOp.name = "get_enb_count" /\ lastRet.count = 1 /\ log_state = "ok"
    /\ \E ip \in IPs : Cardinality(AcceptedIn(log_lines, ip)) = 1
    /\ Len(log_lines) = 2

\* ------------------------------------------------------------------ C17
\* C17: a parser that repeats the query it has just run, on an unchanged
\* file, gets the result of the first call again.
C17_RepeatGivesSameResult ==
    [][(lastOp.name # "none" /\ lastP' = lastP /\ lastOp' = lastOp)
          => lastRet' = lastRet]_vars

\* get_ue_count was run twice in a row on a file with a counter line.
C17_Witness ==
    /\ lastReps = 2 /\ lastOp.name = "get_ue_count" /\ lastRet.count = 1
    /\ log_state = "ok" /\ log_lines # <<>>

\* ------------------------------------------------------------------ C18
\* A line no pattern of the module matches.
Unmatched(line) == \A i \in 1..Len(line) : line[i].kind = "text"

Matched(line) == ~Unmatched(line)

\* C18: removing every unmatched line from the window a query reads leaves
\* its result unchanged: the query returns what the same parser would return
\* on the file without its unmatched lines.
C18_UnmatchedLinesNoEffect ==
    [][log_state = "ok" =>
          LET me == self[lastP']
              kept == SelectSeq(log_lines, Matched)
          IN /\ lastOp'.name = "get_connected_enodebs"
                  => lastRet' = GetConnectedEnodebs(me, log_state, kept).ret
             /\ lastOp'.name = "get_ue_sessions"
                  => lastRet' = GetUeSessions(me, log_state, kept).ret
             /\ lastOp'.name = "get_ue_count"
                  => lastRet' = GetUeCount(me, log_state, kept).ret
             /\ lastOp'.name = "get_session_count"
                  => lastRet' = GetSessionCount(me, log_state, kept).ret]_vars

ConnQueries == {"get_connected_enodebs", "get_enb_count", "get_connection_status_summary"}
SessQueries ==
    {"get_ue_sessions", "get_ue_count", "get_session_count", "get_ue_status_summary"}

\* C19: the window size a connection query reads with by default differs
\* from the one a session query reads with by default.
C19_DefaultWindowsDiffer ==
    /\ lastOp.name \in ConnQueries => lastOp.n # UeDefaultLinesToRead
    /\ lastOp.name \in SessQueries => lastOp.n # DefaultLinesToRead

\* ------------------------------- concurrent queries on the shared instance
\* get_mme_parser(): every handler uses the one module-level instance.
Shared == "p1"

\* The operations handlers run concurrently (the other three public
\* operations are the first halves of the two summaries).
Ops ==
    {"parse_logs", "parse_ue_sessions", "get_ue_count", "get_session_count",
     "get_ue_status_summary", "get_connection_status_summary"}

\* The operations that run parse_logs; the others run parse_ue_sessions.
ConnOps == {"parse_logs", "get_connection_status_summary"}

\* The pass a thread runs on the window it read, on locals of its own.
OwnPass(op, w) ==
    IF w = <<>> THEN NoOwn
    ELSE IF op \in ConnOps
         THEN [NoOwn EXCEPT !.ran = TRUE,
                            !.connections = ConnectedOf(FoldLogs(LogsStart, w))]
         ELSE LET st == FoldUe(UeStart, w)
              IN [NoOwn EXCEPT !.ran = TRUE, !.sessions = AttachedOf(st),
                               !.last_enb_ue_count = st.last_enb_ue_count,
                               !.last_session_count = st.last_session_count]

\* Thread t moves on inside its operation, holding the partial result r.
Goes(t, pc, r) ==
    /\ t_pc' = [t_pc EXCEPT ![t] = pc]
    /\ t_ret' = [t_ret EXCEPT ![t] = r]
    /\ UNCHANGED <<t_op, t_own>>

\* The last statement of each operation, and the value it returns when the
\* thread executes it in the current state.
AtReturn(t) ==
    \/ t_op[t] = "parse_logs" /\ t_pc[t] \in {"ret_empty_conn", "ret_conn"}
    \/ t_op[t] = "parse_ue_sessions" /\ t_pc[t] \in {"ret_empty_sess", "ret_sess"}
    \/ t_op[t] = "get_ue_count" /\ t_pc[t] = "load_enb"
    \/ t_op[t] \in {"get_session_count", "get_ue_status_summary"} /\ t_pc[t] = "load_mme"
    \/ t_op[t] = "get_connection_status_summary" /\ t_pc[t] = "avail"

ReturnValue(t) ==
    CASE t_pc[t] = "ret_conn" -> [NoRet EXCEPT !.map = self[Shared]._connections]
      [] t_pc[t] = "ret_sess" -> [NoRet EXCEPT !.map = self[Shared]._ue_sessions]
      [] t_pc[t] = "avail" -> [t_ret[t] EXCEPT !.available = IsAvailable(log_state)]
      [] t_pc[t] = "load_enb" -> [NoRet EXCEPT !.count = self[Shared]._enb_ue_count]
      [] t_pc[t] = "load_mme" /\ t_op[t] = "get_session_count" ->
              [NoRet EXCEPT !.count = self[Shared]._mme_session_count]
      [] t_pc[t] = "load_mme" /\ t_op[t] # "get_session_count" ->
              [t_ret[t] EXCEPT !.session_count = self[Shared]._mme_session_count]
      [] OTHER -> NoRet

\* Thread t returns to its caller and is free for the next request.
Returns(t) ==
    /\ AtReturn(t)
    /\ t_pc' = [t_pc EXCEPT ![t] = "idle"]
    /\ t_op' = [t_op EXCEPT ![t] = "none"]
    /\ t_own' = [t_own EXCEPT ![t] = NoOwn]
    /\ t_ret' = [t_ret EXCEPT ![t] = NoRet]

\* A handler thread enters an operation, which reads the window and folds it:
\* lines = self._read_log_lines(lines_to_read); if not lines: return {}
Call(t) ==
    /\ t_pc[t] = "idle"
    /\ \E op \in Ops :
          LET w == ReadLogLines(log_state, log_lines,
                                IF op \in ConnOps THEN DefaultLinesToRead
                                ELSE UeDefaultLinesToRead)
          IN /\ t_op' = [t_op EXCEPT ![t] = op]
             /\ t_own' = [t_own EXCEPT ![t] = OwnPass(op, w)]
             /\ t_pc' = [t_pc EXCEPT ![t] =
                           IF w # <<>>
                           THEN IF op \in ConnOps THEN "store_conn" ELSE "store_enb"
                           ELSE IF op \in ConnOps THEN "ret_empty_conn"
                                ELSE "ret_empty_sess"]
    /\ UNCHANGED <<libVars, fileVars, self, foldVars, seqVars, t_ret>>

\* return {} of parse_logs, and what its caller makes of it.
RetEmptyConn(t) ==
    /\ t_pc[t] = "ret_empty_conn"
    /\ IF t_op[t] = "parse_logs" THEN Returns(t) ELSE Goes(t, "avail", NoRet)
    /\ UNCHANGED <<libVars, fileVars, self, foldVars, seqVars>>

\* return {} of parse_ue_sessions, and what its caller makes of it.
RetEmptySess(t) ==
    /\ t_pc[t] = "ret_empty_sess"
    /\ CASE t_op[t] = "parse_ue_sessions" -> Returns(t)
         [] t_op[t] = "get_ue_count" -> Goes(t, "load_enb", NoRet)
         [] t_op[t] = "get_session_count" -> Goes(t, "load_mme", NoRet)
         [] OTHER -> Goes(t, "avail", NoRet)
    /\ UNCHANGED <<libVars, fileVars, self, foldVars, seqVars>>

\* self._connections = {...}
StoreConn(t) ==
    /\ t_pc[t] = "store_conn"
    /\ self' = [self EXCEPT ![Shared]._connections = t_own[t].connections]
    /\ Goes(t, "ret_conn", t_ret[t])
    /\ UNCHANGED <<libVars, fileVars, foldVars, seqVars>>

\* return self._connections; the connection summary builds its list from it.
RetConn(t) ==
    /\ t_pc[t] = "ret_conn"
    /\ LET m == self[Shared]._connections
       IN IF t_op[t] = "parse_logs"
          THEN Returns(t)
          ELSE Goes(t, "avail",
                    [NoRet EXCEPT !.map = EnodebList(m), !.count = Size(EnodebList(m))])
    /\ UNCHANGED <<libVars, fileVars, self, foldVars, seqVars>>

\* self._enb_ue_count = last_enb_ue_count
StoreEnb(t) ==
    /\ t_pc[t] = "store_enb"
    /\ self' = [self EXCEPT ![Shared]._enb_ue_count = t_own[t].last_enb_ue_count]
    /\ Goes(t, "store_mme", t_ret[t])
    /\ UNCHANGED <<libVars, fileVars, foldVars, seqVars>>

\* self._mme_session_count = last_session_count
StoreMme(t) ==
    /\ t_pc[t] = "store_mme"
    /\ self' = [self EXCEPT ![Shared]._mme_session_count =
                   t_own[t].last_session_count]
    /\ Goes(t, "store_sess", t_ret[t])
    /\ UNCHANGED <<libVars, fileVars, foldVars, seqVars>>

\* self._ue_sessions = {...}
StoreSess(t) ==
    /\ t_pc[t] = "store_sess"
    /\ self' = [self EXCEPT ![Shared]._ue_sessions = t_own[t].sessions]
    /\ Goes(t, "ret_sess", t_ret[t])
    /\ UNCHANGED <<libVars, fileVars, foldVars, seqVars>>

\* return self._ue_sessions; the counters drop it, the summary lists it.
RetSess(t) ==
    /\ t_pc[t] = "ret_sess"
    /\ LET m == self[Shared]._ue_sessions
       IN CASE t_op[t] = "parse_ue_sessions" -> Returns(t)
            [] t_op[t] = "get_ue_count" -> Goes(t, "load_enb", NoRet)
            [] t_op[t] = "get_session_count" -> Goes(t, "load_mme", NoRet)
            [] OTHER ->
                 Goes(t, "avail", [NoRet EXCEPT !.map = SessionList(m), !.count = Size(m)])
    /\ UNCHANGED <<libVars, fileVars, self, foldVars, seqVars>>

\* "available": self.is_available()
Avail(t) ==
    /\ t_pc[t] = "avail"
    /\ LET r == [t_ret[t] EXCEPT !.available = IsAvailable(log_state)]
       IN IF t_op[t] = "get_ue_status_summary"
          THEN Goes(t, "load_enb", r)
          ELSE Returns(t)
    /\ UNCHANGED <<libVars, fileVars, self, foldVars, seqVars>>

\* return self._enb_ue_count / "enb_ue_count": self._enb_ue_count
LoadEnb(t) ==
    /\ t_pc[t] = "load_enb"
    /\ IF t_op[t] = "get_ue_count"
       THEN Returns(t)
       ELSE Goes(t, "load_mme",
                 [t_ret[t] EXCEPT !.enb_ue_count = self[Shared]._enb_ue_count])
    /\ UNCHANGED <<libVars, fileVars, self, foldVars, seqVars>>

\* return self._mme_session_count / "session_count": self._mme_session_count
LoadMme(t) ==
    /\ t_pc[t] = "load_mme"
    /\ Returns(t)
    /\ UNCHANGED <<libVars, fileVars, self, foldVars, seqVars>>

Init == InitFile /\ InitParsers /\ InitFold /\ InitSeq /\ InitThreads /\ InitLib

Next ==
    \/ ExtAppend \/ ExtRemove \/ ExtCreate
    \/ \E t \in Threads :
          \/ Call(t) \/ RetEmptyConn(t) \/ RetEmptySess(t)
          \/ StoreConn(t) \/ RetConn(t)
          \/ StoreEnb(t) \/ StoreMme(t) \/ StoreSess(t) \/ RetSess(t)
          \/ Avail(t) \/ LoadEnb(t) \/ LoadMme(t)

Spec == Init /\ [][Next]_vars

\* ------------------------------------------------------------------ C2
\* C2: the map a parse_logs / parse_ue_sessions call returns is the
\* reconstruction of the window that same call read.
C2_ReturnedMapIsOwnReconstruction ==
    \A t \in Threads :
        AtReturn(t) =>
            /\ t_op[t] = "parse_logs" => ReturnValue(t).map = t_own[t].connections
            /\ t_op[t] = "parse_ue_sessions" => ReturnValue(t).map = t_own[t].sessions

\* ------------------------------------------------------------------ C3
\* C3: the counters a call returns (get_ue_count, get_session_count, the
\* enb_ue_count / session_count of a UE status summary) are those of the
\* reconstruction pass that same call ran on the window it read.
C3_CountersAreOwnPass ==
    \A t \in Threads :
        (AtReturn(t) /\ t_own[t].ran) =>
            /\ t_op[t] = "get_ue_count" =>
                  ReturnValue(t).count = t_own[t].last_enb_ue_count
            /\ t_op[t] = "get_session_count" =>
                  ReturnValue(t).count = t_own[t].last_session_count
            /\ t_op[t] = "get_ue_status_summary" =>
                  /\ ReturnValue(t).enb_ue_count = t_own[t].last_enb_ue_count
                  /\ ReturnValue(t).session_count = t_own[t].last_session_count

\* ------------------------------------------------------------------ C25
\* C25: a connection status summary never reports available = false together
\* with total_connected > 0 or a non-empty enodebs list.
C25_SummaryIsOneObservation ==
    \A t \in Threads :
        (AtReturn(t) /\ t_op[t] = "get_connection_status_summary")
            => (~ReturnValue(t).available
                   => ReturnValue(t).count = 0 /\ ReturnValue(t).map = EmptyMap)

\* ------------------------------------------------ update_subscriber
Digits == {"0", "1", "2", "3", "4", "5", "6", "7", "8", "9"}

ImsiLength == 15

\* _validate_imsi: the exception it raises, or "ok".
ValidateImsi(imsi) ==
    IF ~imsi.isstr THEN "ValidationError"
    ELSE IF imsi.chars = <<>>
            \/ \E i \in 1..Len(imsi.chars) : imsi.chars[i] \notin Digits
        THEN "ValidationError"
    ELSE IF Len(imsi.chars) # ImsiLength THEN "ValidationError"
    ELSE "ok"

\* The comprehension without its condition: every keyword passes.
ValidatedUpdatesAll(updates) == updates

\* validated_updates: the keywords of the call that are on the whitelist.
ValidatedUpdates(updates) ==
    [k \in (DOMAIN updates) \cap ALLOWED_UPDATE_FIELDS |-> updates[k]]

\* The IMSI of the one subscriber in the store, and the arguments callers
\* pass: that IMSI, the IMSI of no subscriber, 14 digits, 15 characters with
\* a letter, the empty string, and an int.
StoredImsi == ImsiArg(TRUE, <<"3","1","5","0","1","0","0","0","0","0","0","0","0","0","1">>)

ImsiArgs ==
    { StoredImsi,
      ImsiArg(TRUE, <<"3","1","5","0","1","0","0","0","0","0","0","0","0","0","2">>),
      ImsiArg(TRUE, <<"3","1","5","0","1","0","0","0","0","0","0","0","0","1">>),
      ImsiArg(TRUE, <<"3","1","5","0","1","0","0","0","0","0","0","0","0","0","x">>),
      ImsiArg(TRUE, <<>>),
      ImsiArg(FALSE, <<"3">>) }

\* **updates: any keywords among UpdateFields, any values.
UpdateArgs == UNION { [D -> FieldValues] : D \in SUBSET UpdateFields }

\* update_one({"imsi": imsi}, {"$set": set}) on the store's document.
SetFields(doc, set) ==
    [f \in (DOMAIN doc) \cup (DOMAIN set) |->
        IF f \in DOMAIN set THEN set[f] ELSE doc[f]]

ModifiedCount(imsi, set) ==
    IF imsi = StoredImsi /\ SetFields(db_doc, set) # db_doc THEN 1 ELSE 0

\* One call of update_subscriber. The store answers, fails to connect
\* (the subscribers property raises before update_one is called), or raises
\* OperationFailure from update_one, the write applied or not.
UpdateSubscriber ==
    \E imsi \in ImsiArgs, updates \in UpdateArgs :
        /\ upd_imsi' = imsi
        /\ upd_updates' = updates
        /\ IF ValidateImsi(imsi) # "ok"
           THEN /\ upd_ret' = ValidateImsi(imsi)
                /\ upd_sent' = EmptyMap
                /\ db_doc' = db_doc
           ELSE IF DOMAIN ValidatedUpdates(updates) = {}
           THEN /\ upd_ret' = "False"
                /\ upd_sent' = EmptyMap
                /\ db_doc' = db_doc
           ELSE \E store \in {"ok", "ConnectionFailure",
                               "OperationFailure", "OperationFailureApplied"} :
                IF store = "ConnectionFailure"
                THEN /\ upd_ret' = "MongoDBConnectionError"
                     /\ upd_sent' = EmptyMap
                     /\ db_doc' = db_doc
                ELSE /\ upd_sent' = ValidatedUpdates(updates)
                     /\ db_doc' =
                          IF imsi = StoredImsi /\ store # "OperationFailure"
                          THEN SetFields(db_doc, ValidatedUpdates(updates))
                          ELSE db_doc
                     /\ upd_ret' =
                          IF store # "ok" THEN "SubscriberError"
                          ELSE IF ModifiedCount(imsi, ValidatedUpdates(updates)) > 0
                               THEN "True" ELSE "False"
        /\ UNCHANGED <<mmeVars, clientVars, histVars>>

InitUpdate ==
    InitFile /\ InitParsers /\ InitFold /\ InitSeq /\ InitThreads /\ InitLib

NextUpdate == UpdateSubscriber

SpecUpdate == InitUpdate /\ [][NextUpdate]_vars

\* ------------------------------------------------------------------ C22
\* The last call passed only keywords that are not on the whitelist.
AllFiltered ==
    upd_ret # "none" /\ (DOMAIN upd_updates) \cap ALLOWED_UPDATE_FIELDS = {}

\* C22 as stated: in every call of update_subscriber the fields sent to the
\* store are a subset of the whitelist, and a call whose fields are all
\* non-whitelisted returns False and performs no store write.
C22_AllFilteredReturnsFalse ==
    /\ DOMAIN upd_sent \subseteq ALLOWED_UPDATE_FIELDS
    /\ AllFiltered => (upd_ret = "False" /\ upd_sent = EmptyMap)

\* C22, amended: in every call the fields sent to the store are a subset of
\* the whitelist and the stored security field keeps its provisioned value;
\* a call whose fields are all non-whitelisted sends nothing to the store and
\* returns False when its IMSI is well formed, and raises ValidationError
\* when it is not.
C22_OnlyWhitelistedWritten ==
    /\ DOMAIN upd_sent \subseteq ALLOWED_UPDATE_FIELDS
    /\ db_doc["security"] = ProvisionedDoc["security"]
    /\ AllFiltered =>
          /\ upd_sent = EmptyMap
          /\ upd_ret = (IF ValidateImsi(upd_imsi) = "ok" THEN "False"
                        ELSE "ValidationError")

\* A call mixing a whitelisted field with security wrote the former only, and
\* a later call with security alone returned False.
C22_Witness ==
    /\ db_doc["ambr"] = 2
    /\ upd_imsi = StoredImsi
    /\ DOMAIN upd_updates = {"security"} /\ upd_updates["security"] = 2
    /\ upd_ret = "False" /\ upd_sent = EmptyMap

\* ------------------------------------------------------- get_client
\* One step per statement of get_client; a thread's position is the statement
\* it executes next. Open5GSClient objects are numbered as they are made.
GoesTo(t, pc) == g_pc' = [g_pc EXCEPT ![t] = pc]

\* A thread calls get_client.
CallGetClient(t) ==
    /\ g_pc[t] = "idle"
    /\ GoesTo(t, "check")
    /\ UNCHANGED <<client_instance, client_lock, client_made, g_ret>>
    /\ UNCHANGED <<mmeVars, updVars, histVars>>

\* if _client_instance is None:
Check(t) ==
    /\ g_pc[t] = "check"
    /\ GoesTo(t, IF client_instance = NoneInt THEN "acquire" ELSE "return")
    /\ UNCHANGED <<client_instance, client_lock, client_made, g_ret>>
    /\ UNCHANGED <<mmeVars, updVars, histVars>>

\* with _client_lock: (entry)
Acquire(t) ==
    /\ g_pc[t] = "acquire"
    /\ client_lock = "free"
    /\ client_lock' = t
    /\ GoesTo(t, "recheck")
    /\ UNCHANGED <<client_instance, client_made, g_ret>>
    /\ UNCHANGED <<mmeVars, updVars, histVars>>

\* The second test left out: whoever holds the lock constructs.
RecheckSkipped(t) ==
    /\ g_pc[t] = "recheck"
    /\ GoesTo(t, "create")
    /\ UNCHANGED <<client_instance, client_lock, client_made, g_ret>>
    /\ UNCHANGED <<mmeVars, updVars, histVars>>

\* if _client_instance is None: (under the lock)
Recheck(t) ==
    /\ g_pc[t] = "recheck"
    /\ GoesTo(t, IF client_instance = NoneInt THEN "create" ELSE "release")
    /\ UNCHANGED <<client_instance, client_lock, client_made, g_ret>>
    /\ UNCHANGED <<mmeVars, updVars, histVars>>

\* _client_instance = Open5GSClient()
Create(t) ==
    /\ g_pc[t] = "create"
    /\ client_made' = client_made + 1
    /\ client_instance' = client_made + 1
    /\ GoesTo(t, "release")
    /\ UNCHANGED <<client_lock, g_ret>>
    /\ UNCHANGED <<mmeVars, updVars, histVars>>

\* with _client_lock: (exit)
Release(t) ==
    /\ g_pc[t] = "release"
    /\ client_lock' = "free"
    /\ GoesTo(t, "return")
    /\ UNCHANGED <<client_instance, client_made, g_ret>>
    /\ UNCHANGED <<mmeVars, updVars, histVars>>

\* return _client_instance
ReturnClient(t) ==
    /\ g_pc[t] = "return"
    /\ g_ret' = [g_ret EXCEPT ![t] = client_instance]
    /\ GoesTo(t, "idle")
    /\ UNCHANGED <<client_instance, client_lock, client_made>>
    /\ UNCHANGED <<mmeVars, updVars, histVars>>

InitGetClient ==
    InitFile /\ InitParsers /\ InitFold /\ InitSeq /\ InitThreads /\ InitLib

NextGetClient ==
    \E t \in Callers :
        \/ CallGetClient(t)
        \/ Check(t)
        \/ Acquire(t)
        \/ Recheck(t)
        \/ Create(t)
        \/ Release(t)
        \/ ReturnClient(t)

SpecGetClient == InitGetClient /\ [][NextGetClient]_vars

\* ------------------------------------------------------------------ C23
\* C23: get_client returns the same Open5GSClient instance on every call;
\* when several threads make the first call concurrently at most one instance
\* is ever created and every one of them receives it.
C23_OneInstanceForAll ==
    /\ client_made <= 1
    /\ \A t \in Callers :
          g_ret[t] # NoneInt => (g_ret[t] = 1 /\ g_ret[t] = client_instance)
    /\ \A t \in Callers : g_pc[t] = "return" => client_instance = 1

\* Two threads saw None at the first test; one constructed the instance and
\* returned it, the other then holds the lock and finds the instance at the
\* second test, and the third has returned the same instance.
C23_Witness ==
    \E t, u, w \in Callers :
        /\ t # u /\ u # w /\ t # w
        /\ g_pc[t] = "recheck" /\ client_lock = t
        /\ client_instance = 1
        /\ g_ret[u] = 1 /\ g_ret[w] = 1

\* ------------------------------------------- get_grant_state_changes
\* A snapshot's active_grant: None, or a formatted grant.
NoGrant == [truthy |-> FALSE, state |-> NoneStr, grant_id |-> NoneInt]

Grant(state, id) == [truthy |-> TRUE, state |-> state, grant_id |-> id]

Snapshot(ts, sas, grant) ==
    [timestamp |-> ts, sas_state |-> sas, active_grant |-> grant]

\* Statuses handed to store_snapshot.
SasStates == {NoneStr, "REGISTERED", "DEREGISTERED"}

ActiveGrants == {NoGrant, Grant("AUTHORIZED", 1)}

\* store_snapshot: timestamp = now. The clock may not have advanced since the
\* previous snapshot was stored (stored timestamps have a resolution).
StoreSnapshot ==
    /\ Len(snapshots) < MaxSnapshots
    /\ \E sas \in SasStates, grant \in ActiveGrants, tick \in {0, 1} :
          LET now == IF snapshots = <<>> THEN 1
                     ELSE snapshots[Len(snapshots)].timestamp + tick
          IN  snapshots' = Append(snapshots, Snapshot(now, sas, grant))
    /\ UNCHANGED <<history, changes>>
    /\ UNCHANGED <<mmeVars, updVars, clientVars>>

\* get_history: the snapshots not older than the cutoff, newest first;
\* snapshots of equal timestamp come in either order.
Histories(cutoff) ==
    LET idx == {i \in 1..Len(snapshots) : snapshots[i].timestamp >= cutoff}
        n == Cardinality(idx)
        orders == {h \in [1..n -> idx] :
                     /\ \A i, j \in 1..n : i # j => h[i] # h[j]
                     /\ \A i, j \in 1..n : i < j =>
                           snapshots[h[i]].timestamp >= snapshots[h[j]].timestamp}
    IN  {[i \in 1..n |-> snapshots[h[i]]] : h \in orders}

\* reversed(history)
Reversed(s) == [i \in 1..Len(s) |-> s[Len(s) + 1 - i]]

\* current_grant.get("state") if current_grant else None
CurrentGrantState(snapshot) ==
    IF snapshot.active_grant.truthy THEN snapshot.active_grant.state ELSE NoneStr

\* The fold's accumulator: changes, prev_state, prev_grant_state.
NoChanges == [changes |-> <<>>, prev_state |-> NoneStr, prev_grant_state |-> NoneStr]

\* Detect SAS state change.
SasChangeRule(acc, snapshot) ==
    IF snapshot.sas_state # acc.prev_state
    THEN [acc EXCEPT
            !.changes = Append(@, [timestamp |-> snapshot.timestamp,
                                   type |-> "sas_state",
                                   from_state |-> acc.prev_state,
                                   to_state |-> snapshot.sas_state]),
            !.prev_state = snapshot.sas_state]
    ELSE acc

\* The grant rule without its last assignment: prev_grant_state stays None.
GrantChangeRuleKeepsPrev(acc, snapshot) ==
    IF CurrentGrantState(snapshot) # acc.prev_grant_state
    THEN [acc EXCEPT
            !.changes = Append(@, [timestamp |-> snapshot.timestamp,
                                   type |-> "grant_state",
                                   from_state |-> acc.prev_grant_state,
                                   to_state |-> CurrentGrantState(snapshot),
                                   grant_id |-> snapshot.active_grant.grant_id])]
    ELSE acc

\* Detect grant state change.
GrantChangeRule(acc, snapshot) ==
    IF CurrentGrantState(snapshot) # acc.prev_grant_state
    THEN [acc EXCEPT
            !.changes = Append(@, [timestamp |-> snapshot.timestamp,
                                   type |-> "grant_state",
                                   from_state |-> acc.prev_grant_state,
                                   to_state |-> CurrentGrantState(snapshot),
                                   grant_id |-> snapshot.active_grant.grant_id]),
            !.prev_grant_state = CurrentGrantState(snapshot)]
    ELSE acc

\* The loop of get_grant_state_changes over the first k snapshots of s.
RECURSIVE FoldSnapshots(_, _)
FoldSnapshots(s, k) ==
    IF k = 0 THEN NoChanges
    ELSE GrantChangeRule(SasChangeRule(FoldSnapshots(s, k - 1), s[k]), s[k])

\* One call of get_grant_state_changes: get_history answers with the window
\* of the call, or returns [] (no snapshot in the window, or the query failed).
GetGrantStateChanges ==
    /\ snapshots # <<>>
    /\ \E h \in {<<>>} \cup
                UNION {Histories(cutoff) :
                         cutoff \in 1..snapshots[Len(snapshots)].timestamp} :
          /\ history' = h
          /\ changes' = IF h = <<>> THEN <<>>
                        ELSE FoldSnapshots(Reversed(h), Len(h)).changes
    /\ UNCHANGED snapshots
    /\ UNCHANGED <<mmeVars, updVars, clientVars>>

InitHistory ==
    InitFile /\ InitParsers /\ InitFold /\ InitSeq /\ InitThreads /\ InitLib

NextHistory == StoreSnapshot \/ GetGrantStateChanges

SpecHistory == InitHistory /\ [][NextHistory]_vars

\* ------------------------------------------------------------------ C30
ChangeTypes == {"sas_state", "grant_state"}

\* The snapshots of the last answer, oldest first.
Chrono == Reversed(history)

\* A snapshot's state of a type, and the state of the snapshot before the
\* i-th (None before the first).
SnapState(T, snapshot) ==
    IF T = "sas_state" THEN snapshot.sas_state ELSE CurrentGrantState(snapshot)

PrevSnapState(T, i) == IF i = 1 THEN NoneStr ELSE SnapState(T, Chrono[i - 1])

\* The snapshots whose state of a type differs from the previous snapshot's.
ChangeAt(T) ==
    {i \in 1..Len(Chrono) : SnapState(T, Chrono[i]) # PrevSnapState(T, i)}

Kth(S, k) == CHOOSE i \in S : Cardinality({j \in S : j <= i}) = k

EventsOf(T) ==
    LET idx == {k \in 1..Len(changes) : changes[k].type = T}
    IN  [k \in 1..Cardinality(idx) |-> changes[Kth(idx, k)]]

\* C30: get_grant_state_changes folds the snapshots oldest first and emits,
\* per type, one event exactly when a snapshot's state differs from the
\* previous snapshot's; no event has from_state equal to to_state, and each
\* event's from_state is the to_state of the previous event of its type
\* (None for the first).
C30_EventPerStateChange ==
    /\ \A i, j \in 1..Len(Chrono) :
          i < j => Chrono[i].timestamp <= Chrono[j].timestamp
    /\ \A k, l \in 1..Len(changes) :
          k < l => changes[k].timestamp <= changes[l].timestamp
    /\ \A k \in 1..Len(changes) :
          /\ changes[k].type \in ChangeTypes
          /\ changes[k].from_state # changes[k].to_state
    /\ \A T \in ChangeTypes :
          LET ev == EventsOf(T)
          IN  /\ Len(ev) = Cardinality(ChangeAt(T))
              /\ \A k \in 1..Len(ev) :
                    LET i == Kth(ChangeAt(T), k)
                    IN  /\ ev[k].timestamp = Chrono[i].timestamp
                        /\ ev[k].to_state = SnapState(T, Chrono[i])
                        /\ ev[k].from_state = PrevSnapState(T, i)
                        /\ ev[k].from_state =
                              (IF k = 1 THEN NoneStr ELSE ev[k - 1].to_state)

\* Three snapshots, the last two of one timestamp: the grant state changes
\* at the first and the third and stays at the second, the SAS state changes
\* at the first two and stays at the third, and the answer holds the four
\* events.
C30_Witness ==
    /\ Len(history) = 3 /\ Len(changes) = 4
    /\ Chrono[2].timestamp = Chrono[3].timestamp
    /\ Cardinality(ChangeAt("grant_state")) = 2
    /\ CurrentGrantState(Chrono[1]) = CurrentGrantState(Chrono[2])
    /\ CurrentGrantState(Chrono[3]) = NoneStr
    /\ ChangeAt("sas_state") = {1, 2}

====
